---- MODULE Spec2Model ----
(***************************************************************************)
(* Model of the MagiskHide membership engine,                              *)
(* native/jni/zygisk/hide/utils.cpp: the hide list (pkg_to_procs), the     *)
(* uid index (app_id_to_pkgs), the lock hide_state_lock, and the public    *)
(* operations add / rm / ls / is_hide_target / launch / stop.              *)
(*                                                                         *)
(* Strings are sequences of one-character strings.  A unique_ptr is a      *)
(* sequence of length 0 (nullptr) or 1 (the owned object).                 *)
(***************************************************************************)
EXTENDS Integers, Sequences, FiniteSets, TLC

VARIABLES
    pkg_to_procs_,          \* unique_ptr<map<string, set<string>>>
    app_id_to_pkgs_,        \* unique_ptr<map<int, set<string_view>>>
    hide_state_lock,        \* 0 = free, otherwise the holding thread
    hide_enabled,           \* atomic<bool>
    pkg_xml_ino,            \* stored inode of packages.xml
    cached_manager_app_id,  \* reset to -1 by a rescan
    procfp,                 \* TRUE when the /proc handle has been opened
    db_hidelist,            \* rows of the hidelist table
    db_hide_config,         \* the persisted 'enabled' setting
    data_dir,               \* APP_DATA_DIR: users, each a list of entries
    xml_ino,                \* current inode of /data/system/packages.xml
    proc_table,             \* /proc in readdir order: [pid, cmd]
    killed,                 \* pids that were sent SIGKILL
    monitors,               \* monitor threads started and not yet stopped
    SDK_INT,                \* platform level
    crashed,                \* the daemon died (null dereference)
    pc,                     \* per thread: position in its operation
    arg,                    \* per thread: arguments of the running call
    ret,                    \* per thread: status of the last finished call
    calls                   \* operations started and environment changes so far

vars == <<pkg_to_procs_, app_id_to_pkgs_, hide_state_lock, hide_enabled,
          pkg_xml_ino, cached_manager_app_id, procfp, db_hidelist,
          db_hide_config, data_dir, xml_ino, proc_table, killed, monitors,
          SDK_INT, crashed, pc, arg, ret, calls>>

pkg_to_procs == pkg_to_procs_[1]
app_id_to_pkgs == app_id_to_pkgs_[1]

----------------------------------------------------------------------------
(* Strings *)

S_ab    == <<"a", ".", "b">>
S_abr   == <<"a", ".", "b", ":", "r">>
S_abs   == <<"a", ".", "b", ":", "s">>
S_abs1  == <<"a", ".", "b", ":", "s", "1">>
S_abc   == <<"a", ".", "b", ":">>
S_a     == <<"a", ".">>
S_cd    == <<"c", ".", "d">>
S_bad   == <<"a", " ", "b">>
S_usap32 == <<"u", "s", "a", "p", "3", "2">>
S_usap64 == <<"u", "s", "a", "p", "6", "4">>
S_zygote == <<"_", "z", "y", "g", "o", "t", "e">>
S_app_zygote == <<"a", "_", "z", "y", "g", "o", "t", "e">>
S_webview_zygote == <<"w", "e", "b", "v", "i", "e", "w", "_", "z", "y", "g", "o", "t", "e">>
ISOLATED_MAGIC == <<"i", "s", "o", "l", "a", "t", "e", "d">>

\* ASCII codes of the characters that occur in the model
Ord(c) ==
    CASE c = " " -> 32 [] c = "." -> 46 [] c = "1" -> 49 [] c = "2" -> 50
      [] c = "3" -> 51 [] c = "4" -> 52 [] c = "6" -> 54 [] c = ":" -> 58
      [] c = "_" -> 95 [] c = "a" -> 97 [] c = "b" -> 98 [] c = "c" -> 99
      [] c = "d" -> 100 [] c = "e" -> 101 [] c = "g" -> 103 [] c = "i" -> 105
      [] c = "l" -> 108 [] c = "o" -> 111 [] c = "p" -> 112 [] c = "r" -> 114
      [] c = "s" -> 115 [] c = "t" -> 116 [] c = "u" -> 117 [] c = "v" -> 118
      [] c = "w" -> 119 [] c = "y" -> 121 [] c = "z" -> 122

isalnum(c) == (Ord(c) >= 48 /\ Ord(c) <= 57) \/ (Ord(c) >= 97 /\ Ord(c) <= 122)

str_eql(s, ss) == s = ss

str_starts(s, ss) == Len(s) >= Len(ss) /\ SubSeq(s, 1, Len(ss)) = ss

str_ends(s, ss) ==
    Len(s) >= Len(ss) /\ SubSeq(s, Len(s) - Len(ss) + 1, Len(s)) = ss

str_ends_safe(s, ss) ==
    IF s = S_webview_zygote THEN FALSE ELSE str_ends(s, ss)

\* std::string_view operator< : lexicographic on the bytes
RECURSIVE StrLessFrom(_, _, _)
StrLessFrom(s, ss, i) ==
    IF i > Len(ss) THEN FALSE
    ELSE IF i > Len(s) THEN TRUE
    ELSE IF Ord(s[i]) < Ord(ss[i]) THEN TRUE
    ELSE IF Ord(s[i]) > Ord(ss[i]) THEN FALSE
    ELSE StrLessFrom(s, ss, i + 1)

StrLess(s, ss) == StrLessFrom(s, ss, 1)

to_app_id(uid) == uid % 100000

----------------------------------------------------------------------------
(* validate *)

\* scan of proc for the isolated package: stops at ':' (valid) or at the
\* first character outside [A-Za-z0-9_.] (invalid)
RECURSIVE IsoProcValid(_, _)
IsoProcValid(proc, i) ==
    IF i > Len(proc) THEN TRUE
    ELSE IF isalnum(proc[i]) \/ proc[i] = "_" \/ proc[i] = "." THEN IsoProcValid(proc, i + 1)
    ELSE IF proc[i] = ":" THEN TRUE
    ELSE FALSE

\* scan of pkg: pkg_valid becomes true at a '.', false at a bad character
RECURSIVE PkgValid(_, _, _)
PkgValid(pkg, i, acc) ==
    IF i > Len(pkg) THEN acc
    ELSE IF isalnum(pkg[i]) \/ pkg[i] = "_" THEN PkgValid(pkg, i + 1, acc)
    ELSE IF pkg[i] = "." THEN PkgValid(pkg, i + 1, TRUE)
    ELSE FALSE

RECURSIVE ProcValid(_, _)
ProcValid(proc, i) ==
    IF i > Len(proc) THEN TRUE
    ELSE IF isalnum(proc[i]) \/ proc[i] = "_" \/ proc[i] = ":" \/ proc[i] = "."
         THEN ProcValid(proc, i + 1)
    ELSE FALSE

\* validate that checks only the process names of the sandboxed-worker
\* package
validate_isolated_only(pkg, proc) ==
    IF str_eql(pkg, ISOLATED_MAGIC)
    THEN IsoProcValid(proc, 1)
    ELSE TRUE

validate(pkg, proc) ==
    IF str_eql(pkg, ISOLATED_MAGIC)
    THEN IsoProcValid(proc, 1)
    ELSE PkgValid(pkg, 1, FALSE) /\ ProcValid(proc, 1)

----------------------------------------------------------------------------
(* ProcessReaper *)

\* proc_name_match<str_op>: compares the command line with name
proc_name_match(op, cmd, name) ==
    CASE op = "str_eql" -> str_eql(cmd, name)
      [] op = "str_starts" -> str_starts(cmd, name)
      [] op = "str_ends_safe" -> str_ends_safe(cmd, name)

\* crawl_procfs with the kill_process lambda: walks /proc from entry i on;
\* a match is killed and the walk continues only when multi is set.  A
\* process that was sent SIGKILL is gone from /proc for later walks.
RECURSIVE crawl_procfs(_, _, _, _, _, _)
crawl_procfs(tbl, i, kd, name, multi, op) ==
    IF i > Len(tbl) THEN kd
    ELSE IF tbl[i].pid \notin kd /\ proc_name_match(op, tbl[i].cmd, name)
         THEN IF multi THEN crawl_procfs(tbl, i + 1, kd \cup {tbl[i].pid}, name, multi, op)
              ELSE kd \cup {tbl[i].pid}
    ELSE crawl_procfs(tbl, i + 1, kd, name, multi, op)

\* kill_process: the pids killed so far, after the sweep for name
kill_process(tbl, kd, name, multi, op) == crawl_procfs(tbl, 1, kd, name, multi, op)

----------------------------------------------------------------------------
(* HideListStore *)

EmptyMap == [k \in {} |-> {}]

Contains(m, pkg, proc) == pkg \in DOMAIN m /\ proc \in m[pkg]

\* pkg_to_procs[pkg].emplace(proc)
Emplace(m, pkg, proc) ==
    IF pkg \in DOMAIN m THEN [m EXCEPT ![pkg] = @ \cup {proc}]
    ELSE m @@ (pkg :> {proc})

\* pkg_to_procs.erase(it)
MapErase(m, pkg) == [k \in (DOMAIN m) \ {pkg} |-> m[k]]

\* add_hide_set that ignores the result of emplace (line 185)
add_hide_set_always_new(m, pkg, proc, tbl, kd, fp) ==
    IF ~fp
    THEN [m |-> Emplace(m, pkg, proc), inserted |-> TRUE, killed |-> kd, crash |-> TRUE]
    ELSE [m |-> Emplace(m, pkg, proc), inserted |-> TRUE,
          killed |-> IF str_eql(pkg, ISOLATED_MAGIC)
                     THEN kill_process(tbl, kd, proc, TRUE, "str_starts")
                     ELSE kill_process(tbl, kd, proc, FALSE, "str_eql"),
          crash |-> FALSE]

\* add_hide_set: emplace, then the kill sweep when the pair is new.  The
\* sweep rewinds procfp; with procfp == nullptr that is a null dereference.
add_hide_set(m, pkg, proc, tbl, kd, fp) ==
    IF Contains(m, pkg, proc)
    THEN [m |-> m, inserted |-> FALSE, killed |-> kd, crash |-> FALSE]
    ELSE IF ~fp
    THEN [m |-> Emplace(m, pkg, proc), inserted |-> TRUE, killed |-> kd, crash |-> TRUE]
    ELSE [m |-> Emplace(m, pkg, proc), inserted |-> TRUE,
          killed |-> IF str_eql(pkg, ISOLATED_MAGIC)
                     THEN kill_process(tbl, kd, proc, TRUE, "str_starts")
                     ELSE kill_process(tbl, kd, proc, FALSE, "str_eql"),
          crash |-> FALSE]

\* the db_exec callback of init_list: add_hide_set for every row
RECURSIVE LoadRows(_, _, _, _, _)
LoadRows(rows, m, tbl, kd, fp) ==
    IF rows = {} THEN [m |-> m, killed |-> kd, crash |-> FALSE]
    ELSE LET row == CHOOSE r \in rows : TRUE
             a == add_hide_set(m, row[1], row[2], tbl, kd, fp)
         IN IF a.crash THEN [m |-> a.m, killed |-> a.killed, crash |-> TRUE]
            ELSE LoadRows(rows \ {row}, a.m, tbl, a.killed, fp)

----------------------------------------------------------------------------
(* UidIndex.  An element of a bucket is a string_view: its characters s,   *)
(* the node of pkg_to_procs that owns the characters (<<pkg>> for a map    *)
(* key, <<pkg, proc>> for an element of a process set), and whether that   *)
(* node is still allocated.                                                *)

EmptyIndex == [k \in {} |-> {}]

View(s, own) == [s |-> s, own |-> own, live |-> TRUE]

\* the views whose storage is freed by erasing the nodes in freed
MarkFreed(idxp, freed) ==
    IF idxp = <<>> THEN idxp
    ELSE <<[k \in DOMAIN idxp[1] |->
              {IF e.live /\ e.own \in freed THEN [e EXCEPT !.live = FALSE] ELSE e :
                  e \in idxp[1][k]}]>>

\* the nodes freed by pkg_to_procs.erase(it) for key pkg
NodesOf(m, pkg) == {<<pkg>>} \cup {<<pkg, p>> : p \in m[pkg]}

\* all entries of APP_DATA_DIR/*/ in readdir order
RECURSIVE Flatten(_, _)
Flatten(dir, u) ==
    IF u > Len(dir) THEN <<>> ELSE dir[u] \o Flatten(dir, u + 1)

\* the scan loop of update_uid_map over the entries from i on
RECURSIVE ScanFrom(_, _, _, _)
ScanFrom(entries, i, idx, m) ==
    IF i > Len(entries) THEN idx
    ELSE LET app_id == to_app_id(entries[i].uid)
             name == entries[i].name
         IN IF app_id \in DOMAIN idx THEN ScanFrom(entries, i + 1, idx, m)
            ELSE IF name \in DOMAIN m
                 THEN ScanFrom(entries, i + 1, idx @@ (app_id :> {View(name, <<name>>)}), m)
            ELSE ScanFrom(entries, i + 1, idx, m)

\* update_uid_map without the return of lines 36-39
update_uid_map_always_scans(idxp, m, ino, file_ino, mgr, dir) ==
    IF idxp = <<>>
    THEN [idx_ |-> idxp, ino |-> file_ino, mgr |-> mgr, crash |-> TRUE, scanned |-> FALSE]
    ELSE [idx_ |-> <<ScanFrom(Flatten(dir, 1), 1, EmptyIndex, m)>>, ino |-> file_ino,
          mgr |-> -1, crash |-> FALSE, scanned |-> TRUE]

\* update_uid_map: ino is the stored fingerprint, file_ino the inode stat
\* returns.  Clearing a null index is a null dereference.
update_uid_map(idxp, m, ino, file_ino, mgr, dir) ==
    IF ino = file_ino
    THEN [idx_ |-> idxp, ino |-> ino, mgr |-> mgr, crash |-> FALSE, scanned |-> FALSE]
    ELSE IF idxp = <<>>
    THEN [idx_ |-> idxp, ino |-> file_ino, mgr |-> mgr, crash |-> TRUE, scanned |-> FALSE]
    ELSE [idx_ |-> <<ScanFrom(Flatten(dir, 1), 1, EmptyIndex, m)>>, ino |-> file_ino,
          mgr |-> -1, crash |-> FALSE, scanned |-> TRUE]

\* the uid of the first APP_DATA_DIR/<user>/<pkg> that exists, or -1
RECURSIVE FirstOwner(_, _, _)
FirstOwner(dir, u, pkg) ==
    IF u > Len(dir) THEN -1
    ELSE IF \E j \in 1..Len(dir[u]) : dir[u][j].name = pkg
         THEN dir[u][CHOOSE j \in 1..Len(dir[u]) : dir[u][j].name = pkg].uid
    ELSE FirstOwner(dir, u + 1, pkg)

\* comparison of a bucket element with a string: a view whose storage was
\* freed reads freed memory, which still holds the old bytes (stale) or not
ViewEq(e, s, stale) == IF e.live THEN e.s = s ELSE stale /\ e.s = s

\* update_pkg_uid: pkg is the string passed in, own the node it lives in
update_pkg_uid(idxp, pkg, own, remove, dir, stale) ==
    LET uid == FirstOwner(dir, 1, pkg) IN
    IF uid = -1 THEN [idx_ |-> idxp, crash |-> FALSE]
    ELSE IF idxp = <<>> THEN [idx_ |-> idxp, crash |-> TRUE]
    ELSE LET idx == idxp[1]
             app_id == to_app_id(uid)
         IN IF remove
            THEN IF app_id \in DOMAIN idx
                 THEN LET b == {e \in idx[app_id] : ~ViewEq(e, pkg, stale)}
                      IN [idx_ |-> <<IF b = {} THEN [k \in (DOMAIN idx) \ {app_id} |-> idx[k]]
                                     ELSE [idx EXCEPT ![app_id] = b]>>,
                          crash |-> FALSE]
                 ELSE [idx_ |-> idxp, crash |-> FALSE]
            ELSE LET old == IF app_id \in DOMAIN idx THEN idx[app_id] ELSE {}
                     b == IF \E e \in old : ViewEq(e, pkg, stale) THEN old
                          ELSE old \cup {View(pkg, own)}
                 IN [idx_ |-> <<IF app_id \in DOMAIN idx THEN [idx EXCEPT ![app_id] = b]
                                ELSE idx @@ (app_id :> b)>>,
                     crash |-> FALSE]

\* init_list: db_ok says whether the SELECT succeeds
init_list(mp, idxp, rows, db_ok, tbl, kd, fp, ino, file_ino, mgr, dir) ==
    IF mp # <<>>
    THEN [ok |-> TRUE, m_ |-> mp, idx_ |-> idxp, killed |-> kd, ino |-> ino,
          mgr |-> mgr, crash |-> FALSE]
    ELSE IF ~db_ok
    THEN [ok |-> FALSE, m_ |-> <<EmptyMap>>, idx_ |-> idxp, killed |-> kd, ino |-> ino,
          mgr |-> mgr, crash |-> FALSE]
    ELSE LET l == LoadRows(rows, EmptyMap, tbl, kd, fp)
             u == update_uid_map(<<EmptyIndex>>, l.m, ino, file_ino, mgr, dir)
         IN IF l.crash
            THEN [ok |-> FALSE, m_ |-> <<l.m>>, idx_ |-> idxp, killed |-> l.killed,
                  ino |-> ino, mgr |-> mgr, crash |-> TRUE]
            ELSE [ok |-> TRUE, m_ |-> <<l.m>>, idx_ |-> u.idx_, killed |-> l.killed,
                  ino |-> u.ino, mgr |-> u.mgr, crash |-> FALSE]

----------------------------------------------------------------------------
(* MatchEngine.  The result of a lookup is the set of outcomes the call    *)
(* can have: "TRUE", "FALSE", or "CRASH".  More than one outcome arises    *)
(* where the code reads through a dangling view or dereferences end().     *)

\* iteration order of a std::set<string_view>: by the characters the view
\* had when it was inserted
ViewBefore(e, f) == StrLess(e.s, f.s) \/ (e.s = f.s /\ ~e.live /\ f.live)

RECURSIVE SortedViews(_)
SortedViews(b) ==
    IF b = {} THEN <<>>
    ELSE LET e == CHOOSE x \in b : \A y \in b \ {x} : ~ViewBefore(y, x)
         IN <<e>> \o SortedViews(b \ {e})

\* the truncation rule without its length gate
PrefixRuleNoGate(s, process, max_len) ==
    \/ str_starts(s, process)
    \/ str_starts(process, s)

\* lines 431-434 / 439-442: the length-gated truncation rule, then prefix
PrefixRule(s, process, max_len) ==
    \/ Len(s) > max_len /\ Len(process) > max_len /\ str_starts(s, process)
    \/ str_starts(process, s)

\* the rule of lines 455-458 with the prefix test of the sandboxed regime
NameRuleAsPrefix(s, process, max_len) ==
    \/ Len(s) > max_len /\ Len(process) > max_len /\ str_starts(s, process)
    \/ str_starts(process, s)

\* lines 455-458: the length-gated truncation rule, then equality
NameRule(s, process, max_len) ==
    \/ Len(s) > max_len /\ Len(process) > max_len /\ str_starts(s, process)
    \/ s = process

\* a for-loop over the views of a bucket from position i on; rest is the
\* outcome set of the code after the loop
RECURSIVE RuleLoop(_, _, _, _, _, _)
RuleLoop(seq, i, process, max_len, exact, rest) ==
    IF i > Len(seq) THEN rest
    ELSE LET hit == IF exact THEN NameRule(seq[i].s, process, max_len)
                    ELSE PrefixRule(seq[i].s, process, max_len)
             next == RuleLoop(seq, i + 1, process, max_len, exact, rest)
         IN IF seq[i].live
            THEN IF hit THEN {"TRUE"} ELSE next
            ELSE (IF hit THEN {"TRUE"} ELSE {}) \cup next

\* lines 450-453: pkg_to_procs.find(pkg)->second.count(process); a view
\* that is not a key yields end(), whose ->second is not an object
RECURSIVE CountLoop(_, _, _, _, _)
CountLoop(seq, i, m, process, rest) ==
    IF i > Len(seq) THEN rest
    ELSE LET next == CountLoop(seq, i + 1, m, process, rest)
             found == IF seq[i].s \in DOMAIN m
                      THEN IF process \in m[seq[i].s] THEN {"TRUE"} ELSE next
                      ELSE {"CRASH", "TRUE"} \cup next
         IN IF seq[i].live THEN found
            ELSE found \cup {"CRASH", "TRUE"} \cup next

\* the body of is_hide_target after init_list and update_uid_map
Match(m, idxp, uid, process, max_len) ==
    LET app_id == to_app_id(uid) IN
    IF app_id >= 90000
    THEN LET iso == IF ISOLATED_MAGIC \in DOMAIN m
                    THEN \E s \in m[ISOLATED_MAGIC] : PrefixRule(s, process, max_len)
                    ELSE FALSE
         IN IF iso THEN {"TRUE"}
            ELSE IF idxp = <<>> THEN {"CRASH"}
            ELSE IF -1 \in DOMAIN idxp[1]
                 THEN RuleLoop(SortedViews(idxp[1][-1]), 1, process, max_len, FALSE, {"FALSE"})
            ELSE {"FALSE"}
    ELSE IF idxp = <<>> THEN {"CRASH"}
    ELSE IF app_id \notin DOMAIN idxp[1] THEN {"FALSE"}
    ELSE LET seq == SortedViews(idxp[1][app_id])
         IN CountLoop(seq, 1, m, process,
                      RuleLoop(seq, 1, process, max_len, TRUE, {"FALSE"}))

\* ls_hide_list: the records written to the client, in map order
RECURSIVE SortedStrings(_)
SortedStrings(ss) ==
    IF ss = {} THEN <<>>
    ELSE LET s == CHOOSE x \in ss : \A y \in ss \ {x} : ~StrLess(y, x)
         IN <<s>> \o SortedStrings(ss \ {s})

RECURSIVE ListFrom(_, _, _)
ListFrom(m, keys, i) ==
    IF i > Len(keys) THEN <<>>
    ELSE LET procs == SortedStrings(m[keys[i]])
         IN [j \in 1..Len(procs) |-> keys[i] \o <<"|">> \o procs[j]] \o ListFrom(m, keys, i + 1)

list(m) == ListFrom(m, SortedStrings(DOMAIN m), 1)

----------------------------------------------------------------------------
(* Critical sections.  Each body is computed as a record of the values the *)
(* globals have when the body ends: crash is set when it dereferenced a    *)
(* null pointer, pc is where the thread goes next, st the status returned. *)

Threads == {1, 2}

\* at most MaxCalls operations and environment changes happen in a behaviour
MaxCalls == 4

NoArg == [pkg |-> <<>>, proc |-> <<>>, uid |-> 0, max_len |-> 0, val |-> FALSE]

Status(op, s) == [op |-> op, st |-> s, out |-> <<>>]

\* the operation a critical section belongs to
OpOf(label) ==
    CASE label = "add_cs" -> "add" [] label = "rm_cs" -> "rm" [] label = "ls_cs" -> "ls"
      [] label = "iht_cs" -> "is_hide_target" [] label = "launch_cs" -> "launch"
      [] label = "stop_cs" -> "stop"

Cur == [m_ |-> pkg_to_procs_, idx_ |-> app_id_to_pkgs_, killed |-> killed,
        ino |-> pkg_xml_ino, mgr |-> cached_manager_app_id, en |-> hide_enabled,
        fp |-> procfp, mon |-> monitors, cfg |-> db_hide_config,
        crash |-> FALSE, pc |-> "idle", st |-> "DAEMON_SUCCESS", out |-> <<>>]

\* the globals after init_list(), on top of the record c
AfterInit(c, i) ==
    [c EXCEPT !.m_ = i.m_, !.idx_ = i.idx_, !.killed = i.killed, !.ino = i.ino,
              !.mgr = i.mgr, !.crash = i.crash]

InitNow(db_ok, fp) ==
    init_list(pkg_to_procs_, app_id_to_pkgs_, db_hidelist, db_ok, proc_table, killed,
              fp, pkg_xml_ino, xml_ino, cached_manager_app_id, data_dir)

\* add_hide_list, lines 226-234
add_hide_list(pkg, proc, db_ok, stale) ==
    LET i == InitNow(db_ok, procfp)
        c == AfterInit(Cur, i)
    IN IF i.crash THEN c
       ELSE IF ~i.ok THEN [c EXCEPT !.st = "DAEMON_ERROR"]
       ELSE LET a == add_hide_set(i.m_[1], pkg, proc, proc_table, i.killed, procfp)
                u == update_pkg_uid(i.idx_, proc, <<pkg, proc>>, FALSE, data_dir, stale)
            IN IF ~a.inserted THEN [c EXCEPT !.st = "HIDE_ITEM_EXIST"]
               ELSE IF a.crash THEN [c EXCEPT !.m_ = <<a.m>>, !.crash = TRUE]
               ELSE [c EXCEPT !.m_ = <<a.m>>, !.killed = a.killed, !.idx_ = u.idx_,
                              !.crash = u.crash, !.pc = "add_db"]

\* rm_hide_list that ignores the result of it->second.erase(proc) (line 266)
rm_hide_list_ignores_erase(pkg, proc, db_ok, stale) ==
    LET i == InitNow(db_ok, procfp)
        c == AfterInit(Cur, i)
    IN IF i.crash THEN c
       ELSE IF ~i.ok THEN [c EXCEPT !.st = "DAEMON_ERROR"]
       ELSE LET m == i.m_[1] IN
            IF pkg \in DOMAIN m /\ proc = <<>>
            THEN LET u == update_pkg_uid(i.idx_, pkg, <<pkg>>, TRUE, data_dir, stale)
                 IN [c EXCEPT !.m_ = <<MapErase(m, pkg)>>,
                              !.idx_ = MarkFreed(u.idx_, NodesOf(m, pkg)),
                              !.crash = u.crash, !.pc = "rm_db"]
            ELSE IF pkg \in DOMAIN m
            THEN LET m1 == [m EXCEPT ![pkg] = @ \ {proc}]
                     idx1 == MarkFreed(i.idx_, {<<pkg, proc>>})
                     u == update_pkg_uid(idx1, pkg, <<pkg>>, TRUE, data_dir, stale)
                 IN IF m1[pkg] = {}
                    THEN [c EXCEPT !.m_ = <<MapErase(m, pkg)>>,
                                   !.idx_ = MarkFreed(u.idx_, {<<pkg>>}),
                                   !.crash = u.crash, !.pc = "rm_db"]
                    ELSE [c EXCEPT !.m_ = <<m1>>, !.idx_ = idx1, !.pc = "rm_db"]
            ELSE [c EXCEPT !.st = "HIDE_ITEM_NOT_EXIST"]

\* rm_hide_list, lines 252-278
rm_hide_list(pkg, proc, db_ok, stale) ==
    LET i == InitNow(db_ok, procfp)
        c == AfterInit(Cur, i)
    IN IF i.crash THEN c
       ELSE IF ~i.ok THEN [c EXCEPT !.st = "DAEMON_ERROR"]
       ELSE LET m == i.m_[1] IN
            IF pkg \in DOMAIN m /\ proc = <<>>
            THEN LET u == update_pkg_uid(i.idx_, pkg, <<pkg>>, TRUE, data_dir, stale)
                 IN [c EXCEPT !.m_ = <<MapErase(m, pkg)>>,
                              !.idx_ = MarkFreed(u.idx_, NodesOf(m, pkg)),
                              !.crash = u.crash, !.pc = "rm_db"]
            ELSE IF pkg \in DOMAIN m /\ proc \in m[pkg]
            THEN LET m1 == [m EXCEPT ![pkg] = @ \ {proc}]
                     idx1 == MarkFreed(i.idx_, {<<pkg, proc>>})
                     u == update_pkg_uid(idx1, pkg, <<pkg>>, TRUE, data_dir, stale)
                 IN IF m1[pkg] = {}
                    THEN [c EXCEPT !.m_ = <<MapErase(m, pkg)>>,
                                   !.idx_ = MarkFreed(u.idx_, {<<pkg>>}),
                                   !.crash = u.crash, !.pc = "rm_db"]
                    ELSE [c EXCEPT !.m_ = <<m1>>, !.idx_ = idx1, !.pc = "rm_db"]
            ELSE [c EXCEPT !.st = "HIDE_ITEM_NOT_EXIST"]

\* ls_hide_list, lines 298-315
ls_hide_list(db_ok) ==
    LET i == InitNow(db_ok, procfp)
        c == AfterInit(Cur, i)
    IN IF i.crash THEN c
       ELSE IF ~i.ok THEN [c EXCEPT !.st = "DAEMON_ERROR"]
       ELSE [c EXCEPT !.out = list(i.m_[1])]

\* the outcomes of is_hide_target's lookup in the current state
IhtOutcomes(uid, process, max_len, db_ok) ==
    LET i == InitNow(db_ok, procfp)
        u == update_uid_map(i.idx_, i.m_[1], i.ino, xml_ino, i.mgr, data_dir)
    IN IF i.crash THEN {"CRASH"}
       ELSE IF ~i.ok THEN {"FALSE"}
       ELSE IF u.crash THEN {"CRASH"}
       ELSE Match(i.m_[1], u.idx_, uid, process, max_len)

\* is_hide_target, lines 421-461; o is the outcome of the lookup
is_hide_target(uid, process, max_len, db_ok, o) ==
    LET i == InitNow(db_ok, procfp)
        c == AfterInit(Cur, i)
        u == update_uid_map(i.idx_, i.m_[1], i.ino, xml_ino, i.mgr, data_dir)
        d == [c EXCEPT !.idx_ = u.idx_, !.ino = u.ino, !.mgr = u.mgr]
    IN IF i.crash THEN c
       ELSE IF ~i.ok THEN [c EXCEPT !.st = "FALSE"]
       ELSE IF o = "CRASH" THEN [d EXCEPT !.crash = TRUE]
       ELSE [d EXCEPT !.st = o]

\* the sweep of lines 367-371
ZygoteSweep(tbl, kd, sdk) ==
    IF sdk >= 29
    THEN kill_process(tbl,
             kill_process(tbl, kill_process(tbl, kd, S_usap32, TRUE, "str_eql"),
                          S_usap64, TRUE, "str_eql"),
             S_zygote, TRUE, "str_ends_safe")
    ELSE kd

\* launch_magiskhide, lines 347-382: the part under the lock
launch_magiskhide(ns_ok, open_ok, db_ok, thr_ok) ==
    IF ~ns_ok THEN [Cur EXCEPT !.st = "HIDE_NO_NS"]
    ELSE IF ~procfp /\ ~open_ok THEN [Cur EXCEPT !.st = "DAEMON_ERROR"]
    ELSE LET i == InitNow(db_ok, TRUE)
             c == [AfterInit(Cur, i) EXCEPT !.fp = TRUE, !.en = TRUE]
         IN IF i.crash THEN c
            ELSE IF ~i.ok THEN [c EXCEPT !.en = FALSE, !.st = "DAEMON_ERROR"]
            ELSE LET k == [c EXCEPT !.killed = ZygoteSweep(proc_table, i.killed, SDK_INT)]
                 IN IF ~thr_ok THEN [k EXCEPT !.st = "DAEMON_ERROR"]
                    ELSE [k EXCEPT !.mon = @ + 1, !.pc = "launch_uid_map"]

\* stop_magiskhide without the reset of app_id_to_pkgs_ (line 397)
stop_magiskhide_keeps_index(cfg_ok) ==
    [Cur EXCEPT !.m_ = IF hide_enabled THEN <<>> ELSE @,
                !.mon = IF @ > 0 THEN @ - 1 ELSE 0,
                !.en = FALSE,
                !.cfg = IF cfg_ok THEN 0 ELSE @]

\* stop_magiskhide, lines 392-405; cfg_ok says whether the settings write
\* of update_hide_config succeeds
stop_magiskhide(cfg_ok) ==
    [Cur EXCEPT !.m_ = IF hide_enabled THEN <<>> ELSE @,
                !.idx_ = IF hide_enabled THEN <<>> ELSE @,
                !.mon = IF @ > 0 THEN @ - 1 ELSE 0,
                !.en = FALSE,
                !.cfg = IF cfg_ok THEN 0 ELSE @]

\* leaving a critical section with the globals of r; a crashed thread
\* never releases the lock
Leave(t, r) ==
    /\ pkg_to_procs_' = r.m_
    /\ app_id_to_pkgs_' = r.idx_
    /\ killed' = r.killed
    /\ pkg_xml_ino' = r.ino
    /\ cached_manager_app_id' = r.mgr
    /\ hide_enabled' = r.en
    /\ procfp' = r.fp
    /\ monitors' = r.mon
    /\ db_hide_config' = r.cfg
    /\ crashed' = r.crash
    /\ IF r.crash
       THEN UNCHANGED <<hide_state_lock, pc, arg, ret>>
       ELSE /\ hide_state_lock' = 0
            /\ pc' = [pc EXCEPT ![t] = r.pc]
            /\ arg' = arg
            /\ ret' = IF r.pc = "idle"
                      THEN [ret EXCEPT ![t] = [op |-> OpOf(pc[t]), st |-> r.st, out |-> r.out]]
                      ELSE ret
    /\ UNCHANGED <<db_hidelist, data_dir, xml_ino, proc_table, SDK_INT, calls>>

----------------------------------------------------------------------------
(* Persistence Adapter *)

\* INSERT INTO hidelist: (package_name, process) is the key of the table
db_insert(rows, pkg, proc, ok) ==
    IF ok /\ <<pkg, proc>> \notin rows
    THEN [rows |-> rows \cup {<<pkg, proc>>}, err |-> FALSE]
    ELSE [rows |-> rows, err |-> TRUE]

\* DELETE FROM hidelist WHERE package_name=pkg [AND process=proc]
db_delete(rows, pkg, proc, ok) ==
    IF ~ok THEN [rows |-> rows, err |-> TRUE]
    ELSE IF proc = <<>>
    THEN [rows |-> {r \in rows : r[1] # pkg}, err |-> FALSE]
    ELSE [rows |-> rows \ {<<pkg, proc>>}, err |-> FALSE]

----------------------------------------------------------------------------
(* Steps of the operations, for a thread t *)

Return(t, op, s) ==
    /\ pc' = [pc EXCEPT ![t] = "idle"]
    /\ arg' = arg
    /\ ret' = [ret EXCEPT ![t] = Status(op, s)]

Enter(t, label, a) ==
    /\ ~crashed
    /\ pc[t] = "idle"
    /\ hide_state_lock = 0
    /\ calls < MaxCalls
    /\ calls' = calls + 1
    /\ hide_state_lock' = t
    /\ pc' = [pc EXCEPT ![t] = label]
    /\ arg' = [arg EXCEPT ![t] = a]
    /\ UNCHANGED <<pkg_to_procs_, app_id_to_pkgs_, hide_enabled, pkg_xml_ino,
                   cached_manager_app_id, procfp, db_hidelist, db_hide_config,
                   data_dir, xml_ino, proc_table, killed, monitors, SDK_INT,
                   crashed, ret>>

\* add_hide_list, lines 220-224: the default of proc and the validation
AddInvalid(t, pkg, proc) ==
    /\ ~crashed
    /\ pc[t] = "idle"
    /\ ~validate(pkg, IF proc = <<>> THEN pkg ELSE proc)
    /\ calls < MaxCalls
    /\ calls' = calls + 1
    /\ pc' = pc
    /\ arg' = [arg EXCEPT ![t] = [NoArg EXCEPT !.pkg = pkg,
                                                !.proc = IF proc = <<>> THEN pkg ELSE proc]]
    /\ ret' = [ret EXCEPT ![t] = Status("add", "HIDE_INVALID_PKG")]
    /\ UNCHANGED <<pkg_to_procs_, app_id_to_pkgs_, hide_state_lock, hide_enabled,
                   pkg_xml_ino, cached_manager_app_id, procfp, db_hidelist,
                   db_hide_config, data_dir, xml_ino, proc_table, killed, monitors,
                   SDK_INT, crashed>>

AddEnter(t, pkg, proc) ==
    /\ validate(pkg, IF proc = <<>> THEN pkg ELSE proc)
    /\ Enter(t, "add_cs", [NoArg EXCEPT !.pkg = pkg,
                                        !.proc = IF proc = <<>> THEN pkg ELSE proc])

AddBody(t, db_ok, stale) ==
    /\ ~crashed
    /\ pc[t] = "add_cs"
    /\ Leave(t, add_hide_list(arg[t].pkg, arg[t].proc, db_ok, stale))

\* add_hide_list that takes the pair out of the store again when the INSERT
\* fails
AddDbRollback(t, ok) ==
    /\ ~crashed
    /\ pc[t] = "add_db"
    /\ LET w == db_insert(db_hidelist, arg[t].pkg, arg[t].proc, ok)
       IN /\ db_hidelist' = w.rows
          /\ Return(t, "add", IF w.err THEN "DAEMON_ERROR" ELSE "DAEMON_SUCCESS")
          /\ pkg_to_procs_' =
                IF w.err /\ pkg_to_procs_ # <<>> /\ arg[t].pkg \in DOMAIN pkg_to_procs
                THEN << [pkg_to_procs EXCEPT ![arg[t].pkg] = @ \ {arg[t].proc}] >>
                ELSE pkg_to_procs_
    /\ UNCHANGED <<app_id_to_pkgs_, hide_state_lock, hide_enabled,
                   pkg_xml_ino, cached_manager_app_id, procfp, db_hide_config,
                   data_dir, xml_ino, proc_table, killed, monitors, SDK_INT, crashed, calls>>

\* add_hide_list, lines 236-242
AddDb(t, ok) ==
    /\ ~crashed
    /\ pc[t] = "add_db"
    /\ LET w == db_insert(db_hidelist, arg[t].pkg, arg[t].proc, ok)
       IN /\ db_hidelist' = w.rows
          /\ Return(t, "add", IF w.err THEN "DAEMON_ERROR" ELSE "DAEMON_SUCCESS")
    /\ UNCHANGED <<pkg_to_procs_, app_id_to_pkgs_, hide_state_lock, hide_enabled,
                   pkg_xml_ino, cached_manager_app_id, procfp, db_hide_config,
                   data_dir, xml_ino, proc_table, killed, monitors, SDK_INT, crashed, calls>>

\* lines 236-242 when the INSERT reports no error
AddDbSucceeds(t) ==
    /\ ~db_insert(db_hidelist, arg[t].pkg, arg[t].proc, TRUE).err
    /\ AddDb(t, TRUE)

RmEnter(t, pkg, proc) ==
    Enter(t, "rm_cs", [NoArg EXCEPT !.pkg = pkg, !.proc = proc])

RmBody(t, db_ok, stale) ==
    /\ ~crashed
    /\ pc[t] = "rm_cs"
    /\ Leave(t, rm_hide_list(arg[t].pkg, arg[t].proc, db_ok, stale))

\* rm_hide_list, lines 280-288
RmDb(t, ok) ==
    /\ ~crashed
    /\ pc[t] = "rm_db"
    /\ LET w == db_delete(db_hidelist, arg[t].pkg, arg[t].proc, ok)
       IN /\ db_hidelist' = w.rows
          /\ Return(t, "rm", IF w.err THEN "DAEMON_ERROR" ELSE "DAEMON_SUCCESS")
    /\ UNCHANGED <<pkg_to_procs_, app_id_to_pkgs_, hide_state_lock, hide_enabled,
                   pkg_xml_ino, cached_manager_app_id, procfp, db_hide_config,
                   data_dir, xml_ino, proc_table, killed, monitors, SDK_INT, crashed, calls>>

LsEnter(t) == Enter(t, "ls_cs", NoArg)

LsBody(t, db_ok) ==
    /\ ~crashed
    /\ pc[t] = "ls_cs"
    /\ Leave(t, ls_hide_list(db_ok))

IhtEnter(t, uid, process, max_len) ==
    Enter(t, "iht_cs", [NoArg EXCEPT !.uid = uid, !.proc = process, !.max_len = max_len])

IhtBody(t, db_ok) ==
    /\ ~crashed
    /\ pc[t] = "iht_cs"
    /\ \E o \in IhtOutcomes(arg[t].uid, arg[t].proc, arg[t].max_len, db_ok) :
           Leave(t, is_hide_target(arg[t].uid, arg[t].proc, arg[t].max_len, db_ok, o))

MaxMonitors == 2

InLaunch(t) == pc[t] \in {"launch_lock", "launch_cs"}

\* launch_magiskhide, line 344: the flag is read before the lock is taken
LaunchCall(t) ==
    /\ ~crashed
    /\ pc[t] = "idle"
    /\ calls < MaxCalls
    /\ calls' = calls + 1
    /\ IF hide_enabled
       THEN Return(t, "launch", "DAEMON_SUCCESS")
       ELSE /\ monitors + Cardinality({u \in Threads : InLaunch(u)}) < MaxMonitors
            /\ pc' = [pc EXCEPT ![t] = "launch_lock"]
            /\ UNCHANGED <<arg, ret>>
    /\ UNCHANGED <<pkg_to_procs_, app_id_to_pkgs_, hide_state_lock, hide_enabled,
                   pkg_xml_ino, cached_manager_app_id, procfp, db_hidelist,
                   db_hide_config, data_dir, xml_ino, proc_table, killed, monitors,
                   SDK_INT, crashed>>

\* line 347
LaunchLock(t) ==
    /\ ~crashed
    /\ pc[t] = "launch_lock"
    /\ hide_state_lock = 0
    /\ hide_state_lock' = t
    /\ pc' = [pc EXCEPT ![t] = "launch_cs"]
    /\ UNCHANGED <<pkg_to_procs_, app_id_to_pkgs_, hide_enabled, pkg_xml_ino,
                   cached_manager_app_id, procfp, db_hidelist, db_hide_config,
                   data_dir, xml_ino, proc_table, killed, monitors, SDK_INT,
                   crashed, arg, ret, calls>>

LaunchBody(t, ns_ok, open_ok, db_ok, thr_ok) ==
    /\ ~crashed
    /\ pc[t] = "launch_cs"
    /\ Leave(t, launch_magiskhide(ns_ok, open_ok, db_ok, thr_ok))

\* line 384: update_uid_map() after lock.unlock().  A rescan that runs
\* while another thread is inside its critical section is a data race on
\* the index: it completes, or the daemon dies on the damaged tree.
LaunchUidMap(t, survive) ==
    /\ ~crashed
    /\ pc[t] = "launch_uid_map"
    /\ LET u == update_uid_map(app_id_to_pkgs_,
                               IF pkg_to_procs_ = <<>> THEN EmptyMap ELSE pkg_to_procs,
                               pkg_xml_ino, xml_ino, cached_manager_app_id, data_dir)
           race == u.scanned /\ hide_state_lock # 0
       IN /\ survive \/ race
          /\ app_id_to_pkgs_' = u.idx_
          /\ pkg_xml_ino' = u.ino
          /\ cached_manager_app_id' = u.mgr
          /\ crashed' = (u.crash \/ ~survive)
          /\ pc' = IF u.crash \/ ~survive THEN pc ELSE [pc EXCEPT ![t] = "launch_config"]
    /\ UNCHANGED <<pkg_to_procs_, hide_state_lock, hide_enabled, procfp, db_hidelist,
                   db_hide_config, data_dir, xml_ino, proc_table, killed, monitors,
                   SDK_INT, arg, ret, calls>>

\* update_hide_config, lines 329-330: sprintf reads hide_enabled
LaunchConfigRead(t) ==
    /\ ~crashed
    /\ pc[t] = "launch_config"
    /\ arg' = [arg EXCEPT ![t].val = hide_enabled]
    /\ pc' = [pc EXCEPT ![t] = "launch_config_write"]
    /\ UNCHANGED <<pkg_to_procs_, app_id_to_pkgs_, hide_state_lock, hide_enabled,
                   pkg_xml_ino, cached_manager_app_id, procfp, db_hidelist,
                   db_hide_config, data_dir, xml_ino, proc_table, killed, monitors,
                   SDK_INT, crashed, ret, calls>>

\* update_hide_config, lines 331-332, and the return of line 388
LaunchConfigWrite(t, cfg_ok) ==
    /\ ~crashed
    /\ pc[t] = "launch_config_write"
    /\ db_hide_config' = IF cfg_ok THEN (IF arg[t].val THEN 1 ELSE 0) ELSE db_hide_config
    /\ Return(t, "launch", "DAEMON_SUCCESS")
    /\ UNCHANGED <<pkg_to_procs_, app_id_to_pkgs_, hide_state_lock, hide_enabled,
                   pkg_xml_ino, cached_manager_app_id, procfp, db_hidelist,
                   data_dir, xml_ino, proc_table, killed, monitors, SDK_INT, crashed,
                   calls>>

StopEnter(t) == Enter(t, "stop_cs", NoArg)

StopBody(t, cfg_ok) ==
    /\ ~crashed
    /\ pc[t] = "stop_cs"
    /\ Leave(t, stop_magiskhide(cfg_ok))

----------------------------------------------------------------------------
(* Environment: the app-data tree and the package registry file *)

EnvDataDir(d) ==
    /\ ~crashed
    /\ d # data_dir
    /\ calls < MaxCalls
    /\ calls' = calls + 1
    /\ data_dir' = d
    /\ UNCHANGED <<pkg_to_procs_, app_id_to_pkgs_, hide_state_lock, hide_enabled,
                   pkg_xml_ino, cached_manager_app_id, procfp, db_hidelist,
                   db_hide_config, xml_ino, proc_table, killed, monitors, SDK_INT,
                   crashed, pc, arg, ret>>

EnvRegistry(i) ==
    /\ ~crashed
    /\ i # xml_ino
    /\ calls < MaxCalls
    /\ calls' = calls + 1
    /\ xml_ino' = i
    /\ UNCHANGED <<pkg_to_procs_, app_id_to_pkgs_, hide_state_lock, hide_enabled,
                   pkg_xml_ino, cached_manager_app_id, procfp, db_hidelist,
                   db_hide_config, data_dir, proc_table, killed, monitors, SDK_INT,
                   crashed, pc, arg, ret>>

\* get_manager_app_id caches the identity of the manager application
ManagerAppId == 10002

EnvManager ==
    /\ ~crashed
    /\ cached_manager_app_id = -1
    /\ calls < MaxCalls
    /\ calls' = calls + 1
    /\ cached_manager_app_id' = ManagerAppId
    /\ UNCHANGED <<pkg_to_procs_, app_id_to_pkgs_, hide_state_lock, hide_enabled,
                   pkg_xml_ino, procfp, db_hidelist, db_hide_config, data_dir, xml_ino,
                   proc_table, killed, monitors, SDK_INT, crashed, pc, arg, ret>>

----------------------------------------------------------------------------
(* Inputs *)

Entry(name, uid) == [name |-> name, uid |-> uid]
Proc(pid, cmd) == [pid |-> pid, cmd |-> cmd]

DirHome   == << <<Entry(S_ab, 10001), Entry(S_cd, 10002)>> >>
DirMoved  == << <<Entry(S_ab, 10003), Entry(S_cd, 10002)>> >>
DirGone   == << <<Entry(S_cd, 10002)>> >>
DirShared == << <<Entry(S_ab, 10001), Entry(S_cd, 10001)>> >>

TableSmall == <<Proc(1, S_ab), Proc(2, S_usap32)>>
TableFull  == <<Proc(1, S_ab), Proc(2, S_ab), Proc(3, S_abs1), Proc(4, S_abs1),
                Proc(5, S_usap32), Proc(6, S_app_zygote), Proc(7, S_webview_zygote)>>

InitWith(dbs, dirs, inos, tables, sdks) ==
    /\ pkg_to_procs_ = <<>>
    /\ app_id_to_pkgs_ = <<>>
    /\ hide_state_lock = 0
    /\ hide_enabled = FALSE
    /\ pkg_xml_ino = 0
    /\ cached_manager_app_id = -1
    /\ procfp = FALSE
    /\ db_hidelist \in dbs
    /\ db_hide_config = 0
    /\ data_dir \in dirs
    /\ xml_ino \in inos
    /\ proc_table \in tables
    /\ killed = {}
    /\ monitors = 0
    /\ SDK_INT \in sdks
    /\ crashed = FALSE
    /\ pc = [t \in Threads |-> "idle"]
    /\ arg = [t \in Threads |-> NoArg]
    /\ ret = [t \in Threads |-> Status("none", "none")]
    /\ calls = 0

Bools == {TRUE, FALSE}

\* Concurrent specification: two threads, one package
Init == InitWith({{}, {<<S_ab, S_ab>>}}, {DirHome}, {1}, {TableSmall}, {28, 29})

Next ==
    \E t \in Threads :
        \/ \E pkg \in {S_ab, S_bad} : AddInvalid(t, pkg, <<>>)
        \/ \E pkg \in {S_ab, S_bad} : AddEnter(t, pkg, <<>>)
        \/ \E db_ok \in Bools : AddBody(t, db_ok, TRUE)
        \/ \E ok \in Bools : AddDb(t, ok)
        \/ RmEnter(t, S_ab, <<>>)
        \/ \E db_ok \in Bools : RmBody(t, db_ok, TRUE)
        \/ \E ok \in Bools : RmDb(t, ok)
        \/ LsEnter(t)
        \/ \E db_ok \in Bools : LsBody(t, db_ok)
        \/ IhtEnter(t, 10001, S_ab, 1024)
        \/ \E db_ok \in Bools : IhtBody(t, db_ok)
        \/ LaunchCall(t)
        \/ LaunchLock(t)
        \/ \E ns_ok, open_ok, db_ok, thr_ok \in Bools : LaunchBody(t, ns_ok, open_ok, db_ok, thr_ok)
        \/ \E survive \in Bools : LaunchUidMap(t, survive)
        \/ LaunchConfigRead(t)
        \/ \E cfg_ok \in Bools : LaunchConfigWrite(t, cfg_ok)
        \/ StopEnter(t)
        \/ \E cfg_ok \in Bools : StopBody(t, cfg_ok)
        \/ \E i \in {1, 2} : EnvRegistry(i)

Spec == Init /\ [][Next]_vars

\* Sequential specification: one caller, the full input alphabet
AddInputs == {<<S_ab, <<>>>>, <<S_ab, S_abr>>, <<S_ab, S_cd>>, <<S_cd, <<>>>>,
              <<ISOLATED_MAGIC, S_abs>>, <<S_bad, <<>>>>}
RmInputs == {<<S_ab, <<>>>>, <<S_ab, S_abr>>, <<S_ab, S_ab>>, <<S_cd, <<>>>>,
             <<ISOLATED_MAGIC, S_abs>>}
IhtInputs == {<<10001, S_ab, 1024>>, <<10001, S_abr, 1024>>, <<10001, S_a, 1>>,
              <<10001, S_a, 1024>>, <<10002, S_ab, 1024>>, <<99001, S_abs1, 1024>>,
              <<99001, S_abc, 1>>, <<99001, S_abc, 1024>>, <<99001, S_abs, 1024>>}
SeqDirs == {DirHome, DirMoved, DirGone, DirShared}
SeqDbs == {{}, {<<S_ab, S_abr>>, <<S_cd, S_cd>>}}

InitSeq == InitWith(SeqDbs, {DirHome}, {1}, {TableFull}, {29})

NextSeq ==
    \/ \E a \in AddInputs : AddInvalid(1, a[1], a[2])
    \/ \E a \in AddInputs : AddEnter(1, a[1], a[2])
    \/ \E db_ok, stale \in Bools : AddBody(1, db_ok, stale)
    \/ \E ok \in Bools : AddDb(1, ok)
    \/ \E a \in RmInputs : RmEnter(1, a[1], a[2])
    \/ \E db_ok, stale \in Bools : RmBody(1, db_ok, stale)
    \/ \E ok \in Bools : RmDb(1, ok)
    \/ LsEnter(1)
    \/ \E db_ok \in Bools : LsBody(1, db_ok)
    \/ \E a \in IhtInputs : IhtEnter(1, a[1], a[2], a[3])
    \/ \E db_ok \in Bools : IhtBody(1, db_ok)
    \/ LaunchCall(1)
    \/ LaunchLock(1)
    \/ \E ns_ok, open_ok, db_ok, thr_ok \in Bools : LaunchBody(1, ns_ok, open_ok, db_ok, thr_ok)
    \/ \E survive \in Bools : LaunchUidMap(1, survive)
    \/ LaunchConfigRead(1)
    \/ \E cfg_ok \in Bools : LaunchConfigWrite(1, cfg_ok)
    \/ StopEnter(1)
    \/ \E cfg_ok \in Bools : StopBody(1, cfg_ok)
    \/ \E d \in SeqDirs : EnvDataDir(d)
    \/ \E i \in {1, 2} : EnvRegistry(i)
    \/ EnvManager

SpecSeq == InitSeq /\ [][NextSeq]_vars

\* Concurrent specification in which nothing fails: every SELECT, every
\* write of a row or of the setting, every open and every thread start
\* succeeds
NextNoFail ==
    \E t \in Threads :
        \/ AddEnter(t, S_ab, <<>>)
        \/ AddBody(t, TRUE, TRUE)
        \/ AddDbSucceeds(t)
        \/ RmEnter(t, S_ab, <<>>)
        \/ RmBody(t, TRUE, TRUE)
        \/ RmDb(t, TRUE)
        \/ LaunchCall(t)
        \/ LaunchLock(t)
        \/ LaunchBody(t, TRUE, TRUE, TRUE, TRUE)
        \/ \E survive \in Bools : LaunchUidMap(t, survive)
        \/ LaunchConfigRead(t)
        \/ LaunchConfigWrite(t, TRUE)
        \/ StopEnter(t)
        \/ StopBody(t, TRUE)

SpecNoFail == Init /\ [][NextNoFail]_vars

----------------------------------------------------------------------------
(* Properties *)

Absent(p) == p = <<>>

\* C1: whenever the lock is free, HideListStore and UidIndex are both
\* present or both absent; a failed bulk load keeps no store.
InitAtomic ==
    hide_state_lock = 0 => (Absent(pkg_to_procs_) <=> Absent(app_id_to_pkgs_))

\* the positions at which a thread's next step reads or writes
\* pkg_to_procs / app_id_to_pkgs
AccessPcs == {"add_cs", "rm_cs", "ls_cs", "iht_cs", "launch_cs", "stop_cs",
              "launch_uid_map"}

\* C2: every step that reads or writes HideListStore or UidIndex, every
\* step of launch() included, is taken by the thread that holds the lock.
LockHeldOnAccess ==
    \A t \in Threads : pc[t] \in AccessPcs => hide_state_lock = t

StopReturns(t) == pc[t] = "stop_cs" /\ pc'[t] = "idle"

\* C3 as stated: when stop() returns, HideListStore and UidIndex (created
\* whole, by launch() or lazily) are both absent, however they were created.
StopFreesAlways ==
    [][\A t \in Threads :
          (StopReturns(t) /\ (Absent(pkg_to_procs_) <=> Absent(app_id_to_pkgs_)))
              => (Absent(pkg_to_procs_') /\ Absent(app_id_to_pkgs_'))]_vars

\* C3 amended: when a stop() that found the feature enabled returns,
\* HideListStore and UidIndex are both absent; a stop() that found the
\* feature off leaves both as they were.
StopFreesWhenEnabled ==
    [][\A t \in Threads :
          StopReturns(t) =>
              IF hide_enabled
              THEN Absent(pkg_to_procs_') /\ Absent(app_id_to_pkgs_')
              ELSE UNCHANGED <<pkg_to_procs_, app_id_to_pkgs_>>]_vars

\* C3 witness: a launch and a stop are the only calls made, the launch
\* succeeded, the feature is off again and the structures are gone
StopAfterLaunch ==
    /\ calls = 2
    /\ ret[1] = Status("stop", "DAEMON_SUCCESS")
    /\ ret[2] = Status("launch", "DAEMON_SUCCESS")
    /\ pc[1] = "idle" /\ pc[2] = "idle"
    /\ ~hide_enabled /\ procfp
    /\ Absent(pkg_to_procs_) /\ Absent(app_id_to_pkgs_)

IhtReturns(t) == pc[t] = "iht_cs" /\ pc'[t] = "idle"

\* the names of the views in the bucket of app_id
Bucket(idxp, app_id) == {e.s : e \in idxp[1][app_id]}

\* the call a of is_hide_target is in the normal regime and the index
\* idxp, as the call left it, has a bucket for its identity
NormalLookup(idxp, a) ==
    /\ idxp # <<>>
    /\ to_app_id(a.uid) < 90000
    /\ to_app_id(a.uid) \in DOMAIN idxp[1]

HasEntry(mp, S, name) == \E p \in S : Contains(mp[1], p, name)

\* C4 as stated: in the normal regime, with S the package set of the
\* identity, is_hide_target returns true when some package of S hides the
\* name and false for every name no package of S hides.
NormalMatchByEntryOnly ==
    [][\A t \in Threads :
          (IhtReturns(t) /\ NormalLookup(app_id_to_pkgs_', arg[t])) =>
              LET S == Bucket(app_id_to_pkgs_', to_app_id(arg[t].uid))
              IN IF HasEntry(pkg_to_procs_', S, arg[t].proc)
                 THEN ret'[t].st = "TRUE"
                 ELSE ret'[t].st = "FALSE"]_vars

\* every view of the bucket is valid and names a key of the store
BucketOfKeys(mp, idxp, app_id) ==
    \A e \in idxp[1][app_id] : e.live /\ e.s \in DOMAIN mp[1]

\* C4 amended: in the normal regime, with S the package set of the
\* identity and every name of S a package of HideListStore,
\* is_hide_target returns true exactly when some package of S hides the
\* name, or the name equals a package name of S, or the name is a prefix
\* of a package name of S and both are longer than max_prefix_len.
NormalMatch ==
    [][\A t \in Threads :
          (/\ IhtReturns(t)
           /\ NormalLookup(app_id_to_pkgs_', arg[t])
           /\ BucketOfKeys(pkg_to_procs_', app_id_to_pkgs_', to_app_id(arg[t].uid))) =>
              LET S == Bucket(app_id_to_pkgs_', to_app_id(arg[t].uid))
                  name == arg[t].proc
                  byName == \E p \in S :
                              \/ p = name
                              \/ /\ Len(p) > arg[t].max_len
                                 /\ Len(name) > arg[t].max_len
                                 /\ Len(name) <= Len(p)
                                 /\ \A k \in 1..Len(name) : p[k] = name[k]
              IN (ret'[t].st = "TRUE") <=> (HasEntry(pkg_to_procs_', S, name) \/ byName)]_vars

\* C4 witness: a lookup of the package's own name under its identity
\* returned true although the package hides only another process
NormalMatchByName ==
    /\ ret[1] = Status("is_hide_target", "TRUE")
    /\ pc[1] = "idle"
    /\ arg[1].uid = 10001 /\ arg[1].proc = S_ab
    /\ ~Absent(pkg_to_procs_) /\ ~Absent(app_id_to_pkgs_)
    /\ 10001 \in DOMAIN app_id_to_pkgs
    /\ BucketOfKeys(pkg_to_procs_, app_id_to_pkgs_, 10001)
    /\ Bucket(app_id_to_pkgs_, 10001) = {S_ab}
    /\ S_ab \notin pkg_to_procs[S_ab]

\* the patterns the sandboxed regime consults
Patterns(mp, idxp) ==
    (IF mp # <<>> /\ ISOLATED_MAGIC \in DOMAIN mp[1] THEN mp[1][ISOLATED_MAGIC] ELSE {})
    \cup (IF idxp # <<>> /\ -1 \in DOMAIN idxp[1] THEN Bucket(idxp, -1) ELSE {})

IsPrefixOf(s, ss) == Len(s) <= Len(ss) /\ \A k \in 1..Len(s) : s[k] = ss[k]

\* C5 as stated: in the sandboxed regime a name matches a pattern it
\* differs from only as a truncation of the pattern, both longer than
\* max_prefix_len; otherwise only a name equal to the pattern matches.
SandboxedExactOrTruncated ==
    [][\A t \in Threads :
          (IhtReturns(t) /\ to_app_id(arg[t].uid) >= 90000 /\ ret'[t].st = "TRUE") =>
              \E s \in Patterns(pkg_to_procs_', app_id_to_pkgs_') :
                  \/ s = arg[t].proc
                  \/ /\ IsPrefixOf(arg[t].proc, s)
                     /\ Len(s) > arg[t].max_len
                     /\ Len(arg[t].proc) > arg[t].max_len]_vars

\* C5 amended: in the sandboxed regime is_hide_target returns true exactly
\* when some pattern is a prefix of the live name (whatever the lengths),
\* or the live name is a prefix of some pattern and both are longer than
\* max_prefix_len; a truncated name with either length at most
\* max_prefix_len does not match.
SandboxedMatch ==
    [][\A t \in Threads :
          (IhtReturns(t) /\ to_app_id(arg[t].uid) >= 90000) =>
              ((ret'[t].st = "TRUE") <=>
                  \E s \in Patterns(pkg_to_procs_', app_id_to_pkgs_') :
                      \/ IsPrefixOf(s, arg[t].proc)
                      \/ /\ IsPrefixOf(arg[t].proc, s)
                         /\ Len(s) > arg[t].max_len
                         /\ Len(arg[t].proc) > arg[t].max_len)]_vars

\* C5 witness: a truncated live name matched its pattern, both longer
\* than max_prefix_len
SandboxedTruncatedHit ==
    /\ ret[1] = Status("is_hide_target", "TRUE")
    /\ pc[1] = "idle"
    /\ arg[1].uid = 99001 /\ arg[1].proc = S_abc /\ arg[1].max_len = 1
    /\ ~Absent(pkg_to_procs_)
    /\ Patterns(pkg_to_procs_, app_id_to_pkgs_) = {S_abs}

\* some bucket of the index holds a view named pkg
Indexed(idxp, pkg) ==
    idxp # <<>> /\ \E k \in DOMAIN idxp[1] : pkg \in Bucket(idxp, k)

\* C6: remove(pkg, "") of a stored package removes the package with all
\* its processes in one step, and right after it UidIndex associates no
\* app identity with the package, whatever the app-data tree looks like.
RmPackageUnindexes ==
    [][\A t \in Threads :
          (pc[t] = "rm_cs" /\ pc'[t] = "rm_db" /\ arg[t].proc = <<>>) =>
              /\ arg[t].pkg \notin DOMAIN pkg_to_procs_'[1]
              /\ ~Indexed(app_id_to_pkgs_', arg[t].pkg)]_vars

\* the processes a sweep for (pkg, proc) is to kill
Targets(tbl, pkg, proc) ==
    {tbl[i].pid : i \in {j \in 1..Len(tbl) :
                            IF pkg = ISOLATED_MAGIC THEN IsPrefixOf(proc, tbl[j].cmd)
                            ELSE tbl[j].cmd = proc}}

\* C7: when add(pkg, proc) has inserted a new pair and returns success,
\* every running process whose command line equals proc (starts with
\* proc, for the sandboxed-worker package) has been sent a kill.
AddKillsEveryInstance ==
    [][\A t \in Threads :
          (pc[t] = "add_db" /\ pc'[t] = "idle" /\ ret'[t].st = "DAEMON_SUCCESS") =>
              Targets(proc_table, arg[t].pkg, arg[t].proc) \subseteq killed']_vars

\* the number of records of list() that are pkg|proc
Listed(mp, pkg, proc) ==
    Cardinality({i \in 1..Len(list(mp[1])) : list(mp[1])[i] = pkg \o <<"|">> \o proc})

\* C8: add(pkg, proc) of a pair already in HideListStore returns
\* ITEM_ALREADY_EXISTS, leaves the list and UidIndex unchanged with the
\* pair listed once, kills nothing and issues no insert.
AddExistingIsNoOp ==
    [][\A t \in Threads :
          (/\ pc[t] = "add_cs" /\ pc'[t] # "add_cs"
           /\ ~Absent(pkg_to_procs_)
           /\ Contains(pkg_to_procs, arg[t].pkg, arg[t].proc)) =>
              /\ pc'[t] = "idle"
              /\ ret'[t] = Status("add", "HIDE_ITEM_EXIST")
              /\ UNCHANGED <<pkg_to_procs_, app_id_to_pkgs_, killed, db_hidelist>>
              /\ Listed(pkg_to_procs_', arg[t].pkg, arg[t].proc) = 1]_vars

\* C8 witness: an add of a stored pair has returned ITEM_ALREADY_EXISTS
AddExistingReturned ==
    /\ pc[1] = "idle"
    /\ ret[1] = Status("add", "HIDE_ITEM_EXIST")
    /\ ~Absent(pkg_to_procs_)
    /\ Contains(pkg_to_procs, arg[1].pkg, arg[1].proc)

\* C9: remove(pkg, proc) with no matching entry (package unknown, or proc
\* non-empty and not in the package's process set) returns ITEM_NOT_FOUND,
\* leaves the list and UidIndex unchanged and issues no delete.
RmMissingIsNoOp ==
    [][\A t \in Threads :
          (/\ pc[t] = "rm_cs" /\ pc'[t] # "rm_cs"
           /\ ~Absent(pkg_to_procs_)
           /\ \/ arg[t].pkg \notin DOMAIN pkg_to_procs
              \/ arg[t].proc # <<>> /\ arg[t].proc \notin pkg_to_procs[arg[t].pkg]) =>
              /\ pc'[t] = "idle"
              /\ ret'[t] = Status("rm", "HIDE_ITEM_NOT_EXIST")
              /\ UNCHANGED <<pkg_to_procs_, app_id_to_pkgs_, db_hidelist>>
              /\ list(pkg_to_procs_'[1]) = list(pkg_to_procs)]_vars

\* C9 witness: a remove of a process its (stored) package does not hide
\* has returned ITEM_NOT_FOUND
RmMissingReturned ==
    /\ pc[1] = "idle"
    /\ ret[1] = Status("rm", "HIDE_ITEM_NOT_EXIST")
    /\ ~Absent(pkg_to_procs_)
    /\ arg[1].pkg \in DOMAIN pkg_to_procs
    /\ arg[1].proc # <<>>
    /\ arg[1].proc \notin pkg_to_procs[arg[1].pkg]

\* C10: with the feature enabled and its monitor thread running, a
\* launch() starts no monitor thread, runs no kill sweep and changes
\* nothing: only one of several launch() calls performs the enable steps.
LaunchOnEnabledIsNoOp ==
    [][\A t \in Threads :
          (pc[t] = "launch_cs" /\ pc'[t] # "launch_cs" /\ hide_enabled /\ monitors > 0) =>
              UNCHANGED <<monitors, killed, pkg_to_procs_, app_id_to_pkgs_, procfp>>]_vars

\* the pair (pkg, proc) of a call is in the store mp; an empty proc stands
\* for the whole package
Stored(mp, pkg, proc) ==
    /\ mp # <<>>
    /\ pkg \in DOMAIN mp[1]
    /\ proc = <<>> \/ proc \in mp[1][pkg]

\* C11: when the store write of an add or a remove fails after the call
\* changed HideListStore, the call returns GENERIC_ERROR at once (no retry,
\* the rows stay as they were) and the in-memory change is kept: the added
\* pair stays stored, so that adding it again finds it, and the removed
\* pair stays removed.
WriteFailureKeepsChange ==
    [][\A t \in Threads :
          /\ (pc[t] = "add_db" /\ pc'[t] # "add_db" /\ db_hidelist' = db_hidelist) =>
                /\ pc'[t] = "idle"
                /\ ret'[t] = Status("add", "DAEMON_ERROR")
                /\ UNCHANGED <<pkg_to_procs_, app_id_to_pkgs_>>
                /\ Stored(pkg_to_procs_', arg[t].pkg, arg[t].proc)
          /\ (pc[t] = "rm_db" /\ pc'[t] # "rm_db" /\ ret'[t].st # "DAEMON_SUCCESS") =>
                /\ pc'[t] = "idle"
                /\ ret'[t] = Status("rm", "DAEMON_ERROR")
                /\ UNCHANGED <<pkg_to_procs_, app_id_to_pkgs_, db_hidelist>>
                /\ ~Stored(pkg_to_procs_', arg[t].pkg, arg[t].proc)]_vars

\* C11 witness: an add has returned GENERIC_ERROR for a pair that is in the
\* store and has no row
AddWriteFailed ==
    /\ pc[1] = "idle"
    /\ ret[1] = Status("add", "DAEMON_ERROR")
    /\ Stored(pkg_to_procs_, arg[1].pkg, arg[1].proc)
    /\ <<arg[1].pkg, arg[1].proc>> \notin db_hidelist

NameChars == {"a", "b", "c", "d", "r", "s", "e", "i", "o", "l", "t", "u", "p", "w",
              "h", "n", "m", "g", "k", "y", "z", "v", "1", "2", "3", "6", "4", "_"}

\* the pair is one validate rejects: outside the sandboxed-worker package,
\* a package name without a '.' or with a character other than letters,
\* digits, '_' and '.', or a process name with a character other than
\* those and ':'; for the sandboxed-worker package, a process name whose
\* first character outside letters, digits, '_' and '.' is not ':'
Rejected(pkg, proc) ==
    IF pkg = ISOLATED_MAGIC
    THEN \E i \in 1..Len(proc) :
            /\ proc[i] \notin NameChars \cup {".", ":"}
            /\ \A j \in 1..(i - 1) : proc[j] # ":"
    ELSE \/ \A i \in 1..Len(pkg) : pkg[i] # "."
         \/ \E i \in 1..Len(pkg) : pkg[i] \notin NameChars \cup {"."}
         \/ \E i \in 1..Len(proc) : proc[i] \notin NameChars \cup {".", ":"}

\* C12: an add whose pair (after an empty proc took the package name) is
\* rejected by validate returns INVALID_PACKAGE_OR_PROCESS_NAME before
\* anything happens: it never enters the critical section, so the lock is
\* not taken, no lazy load runs, HideListStore, UidIndex and the rows are
\* unchanged and nothing is killed.  (The second conjunct picks the step in
\* which caller 1 makes an add call that returns at once: a call is
\* counted, the caller stays idle with the status of an add, and the step
\* is no change of the environment.)
AddInvalidTouchesNothing ==
    [][/\ (pc[1] # "add_cs" /\ pc'[1] = "add_cs") => ~Rejected(arg'[1].pkg, arg'[1].proc)
       /\ (/\ pc[1] = "idle" /\ pc'[1] = "idle" /\ calls' # calls
           /\ ret'[1].op = "add"
           /\ UNCHANGED <<data_dir, xml_ino, cached_manager_app_id>>) =>
              /\ Rejected(arg'[1].pkg, arg'[1].proc)
              /\ ret'[1] = Status("add", "HIDE_INVALID_PKG")
              /\ UNCHANGED <<hide_state_lock, pkg_to_procs_, app_id_to_pkgs_,
                             db_hidelist, killed, pkg_xml_ino, procfp, hide_enabled,
                             monitors, db_hide_config, crashed>>]_vars

\* C12 witness: an add of a package name with a blank has returned
\* INVALID_PACKAGE_OR_PROCESS_NAME while persisted rows wait for their
\* lazy load
AddInvalidReturned ==
    /\ pc[1] = "idle"
    /\ ret[1] = Status("add", "HIDE_INVALID_PKG")
    /\ Rejected(arg[1].pkg, arg[1].proc)
    /\ arg[1].proc = arg[1].pkg
    /\ Absent(pkg_to_procs_) /\ Absent(app_id_to_pkgs_)
    /\ db_hidelist # {}
    /\ hide_state_lock = 0 /\ killed = {}

\* thread t runs refresh() on an existing index in this step and returns
\* from it: the lookup of is_hide_target on a loaded store, or the tail of
\* launch()
RefreshStep(t) ==
    /\ ~Absent(pkg_to_procs_) /\ ~Absent(app_id_to_pkgs_)
    /\ \/ pc[t] = "iht_cs" /\ pc'[t] = "idle"
       \/ pc[t] = "launch_uid_map" /\ pc'[t] = "launch_config"

\* the index a walk of the tree dir builds for the store m: each identity
\* that owns the directory of a hidden package maps to the first such
\* package in walk order
Rebuilt(m, dir) ==
    LET es == Flatten(dir, 1)
        hid == {i \in 1..Len(es) : es[i].name \in DOMAIN m}
        app(i) == to_app_id(es[i].uid)
        first(k) == CHOOSE i \in hid : app(i) = k /\ \A j \in hid : app(j) = k => i <= j
    IN [k \in {app(i) : i \in hid} |->
           {[s |-> es[first(k)].name, own |-> <<es[first(k)].name>>, live |-> TRUE]}]

\* C13: refresh() called while the inode of the registry file equals the
\* stored fingerprint leaves UidIndex, the cached manager identity and the
\* fingerprint unchanged (no scan, whatever the tree looks like by now);
\* called after the inode changed it stores the new fingerprint, resets the
\* cached manager identity to unknown and replaces the index by the one a
\* walk of the tree builds.
FingerprintGating ==
    [][\A t \in Threads :
          RefreshStep(t) =>
              IF pkg_xml_ino = xml_ino
              THEN UNCHANGED <<app_id_to_pkgs_, cached_manager_app_id, pkg_xml_ino>>
              ELSE /\ pkg_xml_ino' = xml_ino
                   /\ cached_manager_app_id' = -1
                   /\ app_id_to_pkgs_' = <<Rebuilt(pkg_to_procs, data_dir)>>]_vars

\* C13 witness: a lookup has returned with the fingerprint equal to the
\* inode, and the index still files a.b under the identity it had before
\* the tree changed
RefreshSkippedScan ==
    /\ pc[1] = "idle"
    /\ ret[1].op = "is_hide_target"
    /\ pkg_xml_ino = xml_ino
    /\ data_dir = DirMoved
    /\ ~Absent(app_id_to_pkgs_)
    /\ 10001 \in DOMAIN app_id_to_pkgs
    /\ S_ab \in Bucket(app_id_to_pkgs_, 10001)

AllReturned == ~crashed /\ \A t \in Threads : pc[t] = "idle"

\* the pairs of the store mp
Pairs(mp) == UNION {{<<pkg, proc>> : proc \in mp[1][pkg]} : pkg \in DOMAIN mp[1]}

\* C14: in every interleaving of add and remove calls in which no write
\* fails, once all calls have returned the rows of the persistent store
\* are the pairs of HideListStore.
StoreMirrored ==
    (AllReturned /\ ~Absent(pkg_to_procs_)) => db_hidelist = Pairs(pkg_to_procs_)

\* the persisted entries whose package has a directory owned by a normal
\* identity
InstalledRows ==
    {r \in db_hidelist : /\ FirstOwner(data_dir, 1, r[1]) # -1
                         /\ to_app_id(FirstOwner(data_dir, 1, r[1])) < 90000}

\* C15: after launch(), stop(), launch() one after the other (the caller's
\* first launch() succeeded, the stop() of another caller freed the list
\* and no other call is in progress), with the registry file still the one
\* the last scan saw, the second launch leaves UidIndex built from a scan:
\* is_hide_target(identity, proc) is true for every persisted entry
\* (pkg, proc) whose package is installed under a normal identity.
RelaunchRebuildsIndex ==
    [][\A t \in Threads :
          (/\ pc[t] = "launch_cs" /\ pc'[t] = "launch_uid_map"
           /\ ret[t] = Status("launch", "DAEMON_SUCCESS")
           /\ \A u \in Threads \ {t} : pc[u] = "idle"
           /\ Absent(pkg_to_procs_) /\ Absent(app_id_to_pkgs_)
           /\ pkg_xml_ino = xml_ino) =>
              \A r \in InstalledRows :
                  Match(pkg_to_procs_'[1], app_id_to_pkgs_',
                        FirstOwner(data_dir, 1, r[1]), r[2], 1024) = {"TRUE"}]_vars

\* C16: after refresh() has run with a changed fingerprint, every package
\* of HideListStore that has a directory in the app-data tree is filed in
\* UidIndex under the identity that owns the directory, also when several
\* hidden packages are owned by one identity - as if update_single(pkg,
\* add) had been applied for each hidden package.
RebuildComplete ==
    [][\A t \in Threads :
          (RefreshStep(t) /\ pkg_xml_ino # xml_ino) =>
              \A pkg \in DOMAIN pkg_to_procs :
                  LET uid == FirstOwner(data_dir, 1, pkg)
                  IN uid # -1 =>
                        /\ to_app_id(uid) \in DOMAIN app_id_to_pkgs_'[1]
                        /\ pkg \in Bucket(app_id_to_pkgs_', to_app_id(uid))]_vars

\* C17: whenever HideListStore and UidIndex are both present and the lock
\* is free, every package name in UidIndex is a package of HideListStore.
IndexNamesAreStored ==
    (hide_state_lock = 0 /\ ~Absent(pkg_to_procs_) /\ ~Absent(app_id_to_pkgs_)) =>
        \A k \in DOMAIN app_id_to_pkgs :
            \A e \in app_id_to_pkgs[k] : e.s \in DOMAIN pkg_to_procs

\* C18: in every interleaving of launch() and stop() calls in which every
\* call returns SUCCESS and no settings write fails, once all calls have
\* returned the persisted enabled setting equals the in-process flag.
ConfigMirrorsFlag ==
    AllReturned => (db_hide_config = 1 <=> hide_enabled)

\* C19: whenever a launch() called with the feature disabled returns a
\* status other than SUCCESS (namespaces unsupported, the process table
\* cannot be opened, the list cannot be loaded, the monitor thread cannot
\* be started), the in-process enabled flag is false at the return.
FailedLaunchLeavesOff ==
    [][\A t \in Threads :
          (/\ pc[t] = "launch_cs" /\ pc'[t] = "idle"
           /\ ~hide_enabled
           /\ ret'[t].st # "DAEMON_SUCCESS") => ~hide_enabled']_vars

\* the critical sections of the list-editing calls and of the lookup
LazyCs == {"add_cs", "rm_cs", "ls_cs", "iht_cs"}

\* the pairs of mq that mp does not hold; add_hide_set sweeps the process
\* table for each pair it inserts
NewPairs(mp, mq) ==
    (IF mq = <<>> THEN {} ELSE Pairs(mq)) \ (IF mp = <<>> THEN {} ELSE Pairs(mp))

\* C20: whenever ProcessReaper enumerates the process table - the sweep
\* for a pair that add inserts, or for each persisted row that a lazy load
\* inserts in add, remove, list or is_hide_target, before any launch()
\* included - the process-table handle is already open.
SweepHasProcfp ==
    [][\A t \in Threads :
          (pc[t] \in LazyCs /\ hide_state_lock = t
           /\ NewPairs(pkg_to_procs_, pkg_to_procs_') # {}) => procfp]_vars

====
